---- MODULE Spec2Model ----
(***************************************************************************)
(* A model of the Flores static site generator (flores/generator.py), its  *)
(* command line (flores/__main__.py) and its local server                  *)
(* (flores/server.py).                                                     *)
(*                                                                         *)
(* The project on disk is one source file per tracked kind.  A source has  *)
(* a revision (every edit bumps it, and its modification time with it) and *)
(* a content class: "ok", or the input that makes one particular statement *)
(* of the generator fail.  The output directory _site is a map from output *)
(* files to what was written there, tagged with the build that wrote it.   *)
(* build() is a sequence of steps (the phases of Generator.build), so      *)
(* edits and HTTP requests interleave with a running build.                *)
(***************************************************************************)
EXTENDS Integers, Sequences, FiniteSets, TLC

\* ------------------------------------------------------------------ bounds
MaxEvents == 2     \* edits, requests and interrupts that reach the program while it runs
MaxFiles == 1      \* source files the author edits while the program runs
MaxBuilds == 2     \* build() calls a library caller makes
StartTime == 9     \* modification time (in clock ticks) of an unedited source

\* --------------------------------------------------------- error taxonomy
GENERAL_ERROR == 1
FILE_OR_DIR_NOT_FOUND == 3
MISSING_ELEMENT == 4
WRONG_TYPE_OR_FORMAT == 5
TEMPLATE_ERROR == 6
YAML_ERROR == 7
JSON_ERROR == 8
IMAGE_ERROR == 9

FloresErrorCode ==
    { GENERAL_ERROR, FILE_OR_DIR_NOT_FOUND, MISSING_ELEMENT, WRONG_TYPE_OR_FORMAT,
      TEMPLATE_ERROR, YAML_ERROR, JSON_ERROR, IMAGE_ERROR }

ERROR_CODE_EXCEPTION_MAP ==
    [ c \in FloresErrorCode |->
        CASE c = GENERAL_ERROR -> "FloresError"
          [] c = FILE_OR_DIR_NOT_FOUND -> "FileOrDirNotFoundError"
          [] c = MISSING_ELEMENT -> "MissingElementError"
          [] c = WRONG_TYPE_OR_FORMAT -> "WrongTypeOrFormatError"
          [] c = TEMPLATE_ERROR -> "TemplateError"
          [] c = YAML_ERROR -> "YAMLError"
          [] c = JSON_ERROR -> "JSONError"
          [] c = IMAGE_ERROR -> "ImageError" ]

\* The exception classes that derive from FloresError.
FloresErrors == { ERROR_CODE_EXCEPTION_MAP[c] : c \in FloresErrorCode }

\* Exceptions of the libraries the generator calls, which it lets through.
ForeignErrors == { "yaml.scanner.ScannerError", "sass.CompileError" }

\* ---------------------------------------------------------------- sources
\* One source file per kind: _pages/index.md, _templates/main.html, a post,
\* a draft, _data/config.json, a stylesheet, a script, _assets/hello.txt and
\* an image under _assets.
Kinds == { "page", "template", "post", "draft", "data", "css", "js", "asset", "image" }

\* The content classes of each kind.  Other than "ok":
\*   page  nofm       no frontmatter block            (generator.py:824)
\*         yamlparse  frontmatter the YAML parser rejects        (:835)
\*         yamlscan   frontmatter the YAML scanner rejects       (:834)
\*   template syntax  a template Jinja cannot load               (:945)
\*   post  baddate    a date that disagrees with the filename   (:1100)
\*   data  badjson    config.json is not JSON                    (:445)
\*   css   badscss    a stylesheet the Sass compiler rejects    (:1617)
\*   image corrupt    a file the imaging library cannot open    (:1346)
StatusOf(k) ==
    CASE k = "page" -> { "ok", "nofm", "yamlparse", "yamlscan" }
      [] k = "template" -> { "ok", "syntax" }
      [] k = "post" -> { "ok", "baddate" }
      [] k = "data" -> { "ok", "badjson" }
      [] k = "css" -> { "ok", "badscss" }
      [] k = "image" -> { "ok", "corrupt" }
      [] OTHER -> { "ok" }

AllOk == [ k \in Kinds |-> [ rev |-> 0, st |-> "ok" ] ]

\* The project as the program finds it: valid, or with one invalid source.
InitSources ==
    { AllOk } \cup
    UNION { { [ AllOk EXCEPT ![k] = [ rev |-> 0, st |-> s ] ] : s \in StatusOf(k) } : k \in Kinds }

\* ------------------------------------------------------- output directory
OutFiles == Kinds \ { "template", "data" }   \* the output file each source yields

NoFile == [ bid |-> -1, body |-> << >> ]
NoSite == [ exists |-> FALSE, files |-> [ f \in OutFiles |-> NoFile ] ]
EmptySite == [ exists |-> TRUE, files |-> [ f \in OutFiles |-> NoFile ] ]
\* What an earlier run of the program (build number 0) left behind.
StaleSite == [ exists |-> TRUE, files |-> [ f \in OutFiles |-> [ bid |-> 0, body |-> << "old" >> ] ] ]

NoError == "none"
Running == -1          \* exit_status of a process that has not exited
NoResponse == [ url |-> "none", code |-> 0, body |-> << >> ]
NoCall == [ fn |-> "none" ]
Pending == [ err |-> "pending" ]

VARIABLES
    cmd,                    \* "build", "clean", "serve": the subcommand; "library": a caller of Generator
    project_dir_ok,         \* os.path.isdir(project_dir)
    cli_mode,               \* Generator.__cli_mode
    include_drafts,         \* serve(include_drafts) / build --drafts
    disable_image_rebuild,  \* serve(disable_image_rebuild)
    auto_rebuild,           \* serve(auto_rebuild)
    port_in_use,            \* another flores server, serving this project, holds the port
    src,                    \* the source files
    events,                 \* edits, requests and interrupts so far
    site,                   \* the output directory _site
    builds,                 \* build() calls started so far
    bpc,                    \* position inside Generator.build
    bargs,                  \* arguments of the running build() call
    err,                    \* exception raised by the last Generator call
    pc,                     \* position of the main thread
    resource_hash,          \* Server.serve: resource_hash
    seen,                   \* revisions the sources had at the last __compute_resource_hash
    listener,               \* the ThreadingHTTPServer and its thread
    joined,                 \* server_thread.join() has returned
    exit_status,            \* exit status of the process
    log,                    \* messages logged
    resp,                   \* response to the last HTTP request
    call,                   \* a call of one Generator method on a project of its own
    ret                     \* what that call returned, raised and logged

vars == << cmd, project_dir_ok, cli_mode, include_drafts, disable_image_rebuild,
           auto_rebuild, port_in_use, src, events, site, builds, bpc, bargs, err, pc,
           resource_hash, seen, listener, joined, exit_status, log, resp, call, ret >>

\* what no step of a run of the command changes: the command line, the state of the
\* port, and the two variables of the method-level specifications at the end of the
\* module
args == << cmd, project_dir_ok, cli_mode, include_drafts, disable_image_rebuild, auto_rebuild,
           port_in_use, call, ret >>
\* the variables of a run of the command, which no method-level step changes
runv == << cmd, project_dir_ok, cli_mode, include_drafts, disable_image_rebuild, auto_rebuild,
           port_in_use, src, events, site, builds, bpc, bargs, err, pc, resource_hash, seen,
           listener, joined, exit_status, log, resp >>
genv == << site, builds, bpc, bargs, err >>
srvv == << resource_hash, seen, listener, joined >>

Init ==
    /\ cmd \in { "build", "clean", "serve", "library" }
    /\ project_dir_ok \in BOOLEAN
    \* build_cmd and clean_cmd pass cli_mode=True (__main__.py:36, :49);
    \* Server.__init__ passes cli_mode=False (server.py:107).
    /\ cli_mode = (cmd \in { "build", "clean" })
    /\ include_drafts \in (IF cmd \in { "build", "serve" } THEN BOOLEAN ELSE { FALSE })
    /\ auto_rebuild \in (IF cmd = "serve" THEN BOOLEAN ELSE { FALSE })
    \* serve() reads disable_image_rebuild in the auto-rebuild loop only
    /\ disable_image_rebuild \in (IF auto_rebuild THEN BOOLEAN ELSE { FALSE })
    \* the port is found taken by a server started earlier on the same, valid,
    \* project; the draft and image options play no part before the bind
    /\ port_in_use \in (IF cmd = "serve" /\ project_dir_ok /\ ~include_drafts
                            /\ ~disable_image_rebuild
                         THEN BOOLEAN ELSE { FALSE })
    /\ src \in (IF project_dir_ok /\ ~port_in_use THEN InitSources ELSE { AllOk })
    /\ events = 0
    /\ site \in (IF project_dir_ok THEN { NoSite, StaleSite } ELSE { NoSite })
    /\ builds = 0
    /\ bpc = "idle"
    /\ bargs = [ include_drafts |-> FALSE, disable_image_build |-> FALSE ]
    /\ err = NoError
    /\ pc = "start"
    /\ resource_hash = << >>
    /\ seen = [ k \in Kinds |-> 0 ]
    /\ listener = "none"
    /\ joined = FALSE
    /\ exit_status = Running
    /\ log = {}
    /\ resp = NoResponse
    /\ call = NoCall
    /\ ret = NoCall

\* =========================================================== the generator

\* A clean() that removes nothing.
Clean_NoRemoval(s) == s

\* Generator.clean: remove the build directory if it is there.
Clean(s) == IF s.exists THEN NoSite ELSE s

\* os.makedirs(self.build_dir, exist_ok=True)
MakeBuildDir(s) == IF s.exists THEN s ELSE EmptySite

\* open(<file>, "w").write(<rendered>): the file as this build writes it.
Written(s, f, body) ==
    [ s EXCEPT !.files[f] = [ bid |-> builds, body |-> body ] ]

\* os.remove / not copied: the file is not there.
Removed(s, f) == [ s EXCEPT !.files[f] = NoFile ]

\* Generator.config: config.json is read again at every use.
ConfigReadable == src["data"].st # "badjson"

\* A Generator call is entered: build() logs and starts at its first statement.
StartBuild(drafts, noimg) ==
    /\ builds' = builds + 1
    /\ bpc' = "clean"
    /\ bargs' = [ include_drafts |-> drafts, disable_image_build |-> noimg ]
    /\ err' = NoError

\* A __fail that never cleans up.
Fail_NoCleanUp(s, exit_code, clean_up) ==
    /\ log' = log \cup { << "critical", ERROR_CODE_EXCEPTION_MAP[exit_code] >> }
    /\ site' = s
    /\ IF cli_mode
       THEN /\ exit_status' = exit_code
            /\ pc' = "exited"
            /\ bpc' = "exited"
            /\ err' = err
       ELSE /\ err' = ERROR_CODE_EXCEPTION_MAP[exit_code]
            /\ bpc' = "raised"
            /\ UNCHANGED << exit_status, pc >>

\* Generator.__fail: log, clean up, then exit (CLI mode) or raise (library mode).
\* s is the build directory as the failing statement leaves it.
Fail(s, exit_code, clean_up) ==
    /\ log' = log \cup { << "critical", ERROR_CODE_EXCEPTION_MAP[exit_code] >> }
    /\ site' = IF clean_up THEN Clean(s) ELSE s
    /\ IF cli_mode
       THEN /\ exit_status' = exit_code
            /\ pc' = "exited"
            /\ bpc' = "exited"
            /\ err' = err
       ELSE /\ err' = ERROR_CODE_EXCEPTION_MAP[exit_code]
            /\ bpc' = "raised"
            /\ UNCHANGED << exit_status, pc >>

\* An exception of a library passes through the generator untouched.
Raised(s, exception) ==
    /\ err' = exception
    /\ bpc' = "raised"
    /\ site' = s
    /\ UNCHANGED << log, exit_status, pc >>

\* The statement succeeded: build() goes on at 'next'.
Goes(s, next) ==
    /\ bpc' = next
    /\ site' = s
    /\ UNCHANGED << log, exit_status, pc, err >>

Building == exit_status = Running /\ pc \notin { "stop_shutdown", "stop_close", "stop_join", "crashed" }

\* build(): self.clean(); os.makedirs(self.build_dir, exist_ok=True)
BuildClean ==
    /\ Building /\ bpc = "clean"
    /\ Goes(MakeBuildDir(Clean(site)), "pages")
    /\ UNCHANGED << args, src, events, builds, bargs, srvv, resp >>

\* What template.render(site=site_data, page=record) writes for source f.
Rendered(f) == << f, src[f].rev, src["template"].rev, src["data"].rev >>

\* build(): pages = self.collect_pages(); templates = self.collect_templates();
\* posts = self.collect_posts(include_drafts=include_drafts);
\* data = self.collect_data(); then for page in pages: ...; for post in
\* posts: ... (drafts are among the posts when asked for).  The first
\* statement that fails ends build(); nothing is written before every
\* collection has succeeded.
BuildPages ==
    /\ Building /\ bpc = "pages"
    /\ LET withPage == Written(site, "page", Rendered("page"))
           withPost == Written(withPage, "post", Rendered("post"))
           withBoth == Written(withPost, "draft", Rendered("draft"))
       IN  CASE src["page"].st = "nofm" -> Fail(site, MISSING_ELEMENT, TRUE)
             [] src["page"].st = "yamlparse" -> Fail(site, YAML_ERROR, TRUE)
             [] src["page"].st = "yamlscan" -> Raised(site, "yaml.scanner.ScannerError")
             [] src["page"].st = "ok" /\ src["template"].st = "syntax" ->
                    Fail(site, TEMPLATE_ERROR, TRUE)
             [] src["page"].st = "ok" /\ src["template"].st = "ok" /\ src["post"].st = "baddate" ->
                    Fail(site, WRONG_TYPE_OR_FORMAT, TRUE)
             [] /\ src["page"].st = "ok" /\ src["template"].st = "ok" /\ src["post"].st = "ok"
                /\ ~ConfigReadable ->
                    Fail(site, JSON_ERROR, TRUE)
             [] OTHER ->
                    Goes(IF bargs.include_drafts THEN withBoth ELSE withPost, "static")
    /\ UNCHANGED << args, src, events, builds, bargs, srvv, resp >>

\* build(): sass.compile(dirname=(self.stylesheets_dir, self.css_build_dir), ...);
\* shutil.copytree(self.javascript_dir, self.javascript_build_dir);
\* shutil.copytree(self.assets_dir, self.assets_build_dir), then os.remove of
\* every image file of the copy.
BuildStatic ==
    /\ Building /\ bpc = "static"
    /\ LET withCss == Written(site, "css", << "css", src["css"].rev >>)
           withJs == Written(withCss, "js", << "js", src["js"].rev >>)
           copied == Written(Written(withJs, "asset", << "asset", src["asset"].rev >>),
                             "image", << "copy", src["image"].rev >>)
       IN  IF src["css"].st = "badscss"
           THEN Raised(site, "sass.CompileError")
           ELSE Goes(Removed(copied, "image"), "images")
    /\ UNCHANGED << args, src, events, builds, bargs, srvv, resp >>

\* build(): if not disable_image_build: self.build_images().  The image
\* configuration is read from config.json (__get_image_configs); the project's
\* configuration asks for a resized derivative, so every image is decoded.
BuildImages ==
    /\ Building /\ bpc = "images"
    /\ CASE bargs.disable_image_build -> Goes(site, "done")
         [] ~bargs.disable_image_build /\ ~ConfigReadable -> Fail(site, JSON_ERROR, TRUE)
         [] ~bargs.disable_image_build /\ ConfigReadable /\ src["image"].st = "corrupt" ->
                Fail(site, IMAGE_ERROR, TRUE)
         [] OTHER -> Goes(Written(site, "image", << "image", src["image"].rev >>), "done")
    /\ UNCHANGED << args, src, events, builds, bargs, srvv, resp >>

BuildStep ==
    \/ BuildClean
    \/ BuildPages
    \/ BuildStatic
    \/ BuildImages

\* ============================================================ the author
\* The author saves source k with content class s: its revision, and with it
\* its modification time, goes up.
Edit(k, s) ==
    /\ project_dir_ok
    /\ exit_status = Running
    /\ pc # "start"
    /\ events < MaxEvents
    /\ src[k].rev > 0 \/ Cardinality({ j \in Kinds : src[j].rev > 0 }) < MaxFiles
    /\ src' = [ src EXCEPT ![k] = [ rev |-> @.rev + 1, st |-> s ] ]
    /\ events' = events + 1
    /\ UNCHANGED << args, genv, pc, srvv, exit_status, log, resp >>

\* ================================================= the command line
\* Generator.__init__ (reached from build_cmd, clean_cmd, Server.__init__ or a
\* library caller): the project directory must exist.
GeneratorInit ==
    /\ pc = "start"
    /\ IF project_dir_ok
       THEN /\ pc' = cmd
            /\ UNCHANGED << bpc, err, site, log, exit_status >>
       ELSE /\ log' = log \cup { << "critical", ERROR_CODE_EXCEPTION_MAP[FILE_OR_DIR_NOT_FOUND] >> }
            /\ site' = site
            /\ bpc' = bpc
            /\ IF cli_mode
               THEN /\ exit_status' = FILE_OR_DIR_NOT_FOUND
                    /\ pc' = "exited"
                    /\ err' = err
               ELSE \* serve_cmd has no handler: the interpreter prints the
                    \* traceback and exits with status 1
                    /\ err' = ERROR_CODE_EXCEPTION_MAP[FILE_OR_DIR_NOT_FOUND]
                    /\ pc' = IF cmd = "serve" THEN "exited" ELSE "library"
                    /\ exit_status' = IF cmd = "serve" THEN 1 ELSE exit_status
    /\ UNCHANGED << args, src, events, builds, bargs, srvv, resp >>

\* build_cmd: generator.build(include_drafts=args.drafts)
BuildCmd ==
    /\ pc = "build" /\ bpc = "idle"
    /\ StartBuild(include_drafts, FALSE)
    /\ UNCHANGED << args, src, events, site, pc, srvv, exit_status, log, resp >>

\* build() returned to build_cmd: the process ends with status 0.  An
\* exception that is not SystemExit ends it with a traceback and status 1.
BuildCmdEnd ==
    /\ pc = "build" /\ bpc \in { "done", "raised" }
    /\ exit_status' = IF bpc = "done" THEN 0 ELSE 1
    /\ pc' = "exited"
    /\ UNCHANGED << args, src, events, genv, srvv, log, resp >>

\* clean_cmd: generator.clean()
CleanCmd ==
    /\ pc = "clean"
    /\ site' = Clean(site)
    /\ exit_status' = 0
    /\ pc' = "exited"
    /\ UNCHANGED << args, src, events, builds, bpc, bargs, err, srvv, log, resp >>

\* A library caller calls build() with the arguments it likes, and catches
\* what it raises.
LibraryBuild(drafts, noimg) ==
    /\ pc = "library" /\ project_dir_ok /\ bpc \in { "idle", "done", "raised" }
    /\ builds < MaxBuilds
    /\ StartBuild(drafts, noimg)
    /\ UNCHANGED << args, src, events, site, pc, srvv, exit_status, log, resp >>

\* A library caller calls clean().
LibraryClean ==
    /\ pc = "library" /\ project_dir_ok /\ bpc \in { "idle", "done", "raised" }
    /\ site.exists
    /\ site' = Clean(site)
    /\ UNCHANGED << args, src, events, builds, bpc, bargs, err, pc, srvv, exit_status, log, resp >>

\* ============================================================== the server

\* str() of a whole number.
DigitChars == << "0", "1", "2", "3", "4", "5", "6", "7", "8", "9" >>

RECURSIVE Digits(_)
Digits(n) == IF n < 10 THEN << DigitChars[n + 1] >>
             ELSE Digits(n \div 10) \o << DigitChars[(n % 10) + 1] >>

\* str(os.path.getmtime(resource)): a float standing for whole clock ticks.
Str(mtime) == Digits(mtime) \o << ".", "0" >>

\* The directories of the project; no entry is created or removed in them,
\* so their modification times stay what they were.
Dirs == { "_assets", "_css", "_data", "_drafts", "_js", "_pages", "_posts", "_templates" }

\* os.path.getmtime(resource)
GetMtime(r) == IF r \in Dirs THEN StartTime ELSE StartTime + src[r].rev

\* A collect_resources that leaves the image files of _assets out.
CollectResources_NoImages(drafts) ==
    { "page", "template", "post", "data", "css", "js" }
    \cup { "_pages", "_templates", "_posts", "_data", "_css", "_js" }
    \cup { "asset", "_assets" }
    \cup (IF drafts THEN { "draft", "_drafts" } ELSE {})

\* Generator.collect_resources
CollectResources(drafts) ==
    { "page", "template", "post", "data", "css", "js" }
    \cup { "_pages", "_templates", "_posts", "_data", "_css", "_js" }
    \cup { "asset", "image", "_assets" }
    \cup (IF drafts THEN { "draft", "_drafts" } ELSE {})

\* The paths of the project in lexicographic order (what sorted() yields).
PathOrder ==
    << "_assets", "asset", "image", "_css", "css", "_data", "data", "_drafts", "draft",
       "_js", "js", "_pages", "page", "_posts", "post", "_templates", "template" >>

InResources(S) == [ r \in Dirs \cup Kinds |-> r \in S ]

Sorted(S) == LET member == InResources(S)
                 Keep(r) == member[r]
             IN  SelectSeq(PathOrder, Keep)

RECURSIVE MtimeString(_)
MtimeString(resources) ==
    IF resources = << >> THEN << >>
    ELSE Str(GetMtime(Head(resources))) \o MtimeString(Tail(resources))

\* Server.__compute_resource_hash (hash() of the string is taken to be the string)
ComputeResourceHash(drafts) == MtimeString(Sorted(CollectResources(drafts)))

\* The revisions of the sources at the moment the hash is computed.
Revisions == [ k \in Kinds |-> src[k].rev ]

\* serve(): resource_hash = self.__compute_resource_hash(include_drafts)
ServeFirstHash ==
    /\ pc = "serve"
    /\ resource_hash' = ComputeResourceHash(include_drafts)
    /\ seen' = Revisions
    /\ pc' = "initial_build"
    /\ UNCHANGED << args, src, events, genv, listener, joined, exit_status, log, resp >>

\* serve(): self.generator.build(include_drafts=include_drafts)
ServeInitialBuild ==
    /\ pc = "initial_build" /\ bpc = "idle"
    /\ StartBuild(include_drafts, FALSE)
    /\ UNCHANGED << args, src, events, site, pc, srvv, exit_status, log, resp >>

\* serve(): except FloresError: log, sys.exit(1).  Any other exception leaves
\* serve() and ends the process with a traceback and status 1.
ServeInitialBuildFailed ==
    /\ pc = "initial_build" /\ bpc = "raised"
    /\ log' = IF err \in FloresErrors THEN log \cup { << "critical", "nothing to serve" >> } ELSE log
    /\ exit_status' = 1
    /\ pc' = "exited"
    /\ UNCHANGED << args, src, events, genv, srvv, resp >>

\* A ThreadingHTTPServer(...) whose OSError nobody catches: traceback, status 1.
ServeBind_NoHandler ==
    /\ pc = "initial_build" /\ bpc = "done"
    /\ IF port_in_use
       THEN /\ exit_status' = 1
            /\ pc' = "exited"
            /\ UNCHANGED << log, listener >>
       ELSE /\ listener' = "bound"
            /\ pc' = "start_thread"
            /\ UNCHANGED << log, exit_status >>
    /\ UNCHANGED << args, src, events, genv, resource_hash, seen, joined, resp >>

\* serve(): server = ThreadingHTTPServer(("localhost", self.port), ...);
\* except OSError: log "Address `http://localhost:<port>` is already in use",
\* sys.exit(1).
ServeBind ==
    /\ pc = "initial_build" /\ bpc = "done"
    /\ IF port_in_use
       THEN /\ log' = log \cup { << "critical", "http://localhost:port is already in use" >> }
            /\ exit_status' = 1
            /\ pc' = "exited"
            /\ UNCHANGED listener
       ELSE /\ listener' = "bound"
            /\ pc' = "start_thread"
            /\ UNCHANGED << log, exit_status >>
    /\ UNCHANGED << args, src, events, genv, resource_hash, seen, joined, resp >>

\* serve(): server_thread = threading.Thread(...); server_thread.start()
ServeStartThread ==
    /\ pc = "start_thread" /\ exit_status = Running
    /\ listener' = "serving"
    /\ pc' = "log_serving"
    /\ UNCHANGED << args, src, events, genv, resource_hash, seen, joined, exit_status, log, resp >>

\* A serve() that runs the auto-rebuild loop whatever auto_rebuild says.
ServeEnterLoop_AlwaysPoll ==
    /\ pc = "log_serving"
    /\ log' = log \cup { << "info", "serving" >> }
    /\ pc' = "poll"
    /\ UNCHANGED << args, src, events, genv, srvv, exit_status, resp >>

\* serve(): self.__log.info("Serving site at ..."), then the try block is
\* entered and the loop of the mode chosen.
ServeEnterLoop ==
    /\ pc = "log_serving"
    /\ log' = log \cup { << "info", "serving" >> }
    /\ pc' = IF auto_rebuild THEN "poll" ELSE "spin"
    /\ UNCHANGED << args, src, events, genv, srvv, exit_status, resp >>

\* serve(): one pass of the auto-rebuild loop up to the call of build().
Poll ==
    /\ pc = "poll"
    /\ LET new_resource_hash == ComputeResourceHash(include_drafts) IN
       /\ seen' = Revisions
       /\ IF new_resource_hash # resource_hash
          THEN /\ log' = log \cup { << "info", "rebuilding" >> }
               /\ resource_hash' = new_resource_hash
               /\ StartBuild(include_drafts, disable_image_rebuild)
               /\ pc' = "rebuild"
          ELSE /\ pc' = "sleep"
               /\ UNCHANGED << log, resource_hash, builds, bpc, bargs, err >>
    /\ UNCHANGED << args, src, events, site, listener, joined, exit_status, resp >>

\* A loop that does not wait for build() to return (a build run in the
\* background).
RebuildEnd_NoWait ==
    /\ pc = "rebuild"
    /\ pc' = "sleep"
    /\ UNCHANGED << args, src, events, genv, srvv, exit_status, log, resp >>

\* serve(): build() returned, or raised a FloresError (logged as a warning):
\* time.sleep(0.5).  Any other exception leaves serve() through the
\* 'except KeyboardInterrupt', which does not handle it: the main thread ends
\* with a traceback, and the listener thread keeps the process alive.
RebuildEnd ==
    /\ pc = "rebuild" /\ bpc \in { "done", "raised" }
    /\ CASE bpc = "done" -> pc' = "sleep" /\ log' = log
         [] bpc = "raised" /\ err \in FloresErrors ->
                pc' = "sleep" /\ log' = log \cup { << "warning", "failed to rebuild" >> }
         [] OTHER -> pc' = "crashed" /\ log' = log
    /\ UNCHANGED << args, src, events, genv, srvv, exit_status, resp >>

\* serve(): time.sleep(0.5) is over.
Sleep ==
    /\ pc = "sleep"
    /\ pc' = "poll"
    /\ UNCHANGED << args, src, events, genv, srvv, exit_status, log, resp >>

\* The statements of serve() inside its 'try ... except KeyboardInterrupt'.
InTry == { "poll", "rebuild", "sleep", "spin" }

\* SIGINT: KeyboardInterrupt is raised in the main thread, wherever it is.
\* Inside the try block serve() handles it; before the listener thread is
\* started it ends the process; after that, outside the try block, it ends
\* the main thread only, and the listener thread keeps the process alive.
\* A process whose main thread has already ended is waiting for the listener
\* thread: the interrupt ends it, with the status of the earlier traceback.
Interrupt ==
    /\ cmd = "serve" /\ exit_status = Running
    /\ << "signal", "interrupt" >> \notin log
    /\ events < MaxEvents
    /\ events' = events + 1
    /\ pc \notin { "stop_shutdown", "stop_close", "stop_join" }
    /\ CASE pc \in InTry ->
                /\ log' = log \cup { << "signal", "interrupt" >>, << "info", "stopping" >> }
                /\ pc' = "stop_shutdown"
                /\ UNCHANGED << exit_status, listener >>
         [] pc = "log_serving" ->
                /\ log' = log \cup { << "signal", "interrupt" >> }
                /\ pc' = "crashed"
                /\ UNCHANGED << exit_status, listener >>
         [] pc = "crashed" ->
                /\ log' = log \cup { << "signal", "interrupt" >> }
                /\ pc' = "exited"
                /\ exit_status' = 1
                /\ listener' = "killed"
         [] OTHER ->
                /\ log' = log \cup { << "signal", "interrupt" >> }
                /\ pc' = "exited"
                /\ exit_status' = 130
                /\ listener' = IF listener = "bound" THEN "dropped" ELSE listener
    /\ UNCHANGED << args, src, genv, resource_hash, seen, joined, resp >>

\* serve(): server.shutdown()
ServerShutdown ==
    /\ pc = "stop_shutdown"
    /\ listener' = "stopped"
    /\ pc' = "stop_close"
    /\ UNCHANGED << args, src, events, genv, resource_hash, seen, joined, exit_status, log, resp >>

\* serve(): server.server_close()
ServerClose ==
    /\ pc = "stop_close"
    /\ listener' = "closed"
    /\ pc' = "stop_join"
    /\ UNCHANGED << args, src, events, genv, resource_hash, seen, joined, exit_status, log, resp >>

\* serve(): server_thread.join(); serve() and serve_cmd return, and the
\* process ends with status 0.
ThreadJoin ==
    /\ pc = "stop_join"
    /\ joined' = TRUE
    /\ pc' = "returned"
    /\ exit_status' = 0
    /\ UNCHANGED << args, src, events, genv, resource_hash, seen, listener, log, resp >>

\* ------------------------------------------------------- request handling
\* The URLs requested: the index, the post without ".html", and the image by
\* its file name.
Urls == { "/", "/post", "/assets/image.png" }

UrlFile(u) ==
    CASE u = "/" -> "page"
      [] u = "/post" -> "post"
      [] u = "/assets/image.png" -> "image"

IsFile(f) == site.exists /\ site.files[f] # NoFile

\* FloresHTTPRequestHandler.do_GET, and SimpleHTTPRequestHandler.do_GET under
\* it: ".html" is appended when that names a file; a directory answers with
\* its index.html, or with a listing of its entries; a missing path with 404.
Response(u) ==
    LET f == UrlFile(u) IN
    CASE u = "/" /\ ~site.exists -> [ url |-> u, code |-> 404, body |-> << "error" >> ]
      [] u = "/" /\ site.exists /\ ~IsFile(f) -> [ url |-> u, code |-> 200, body |-> << "listing" >> ]
      [] u # "/" /\ ~IsFile(f) -> [ url |-> u, code |-> 404, body |-> << "error" >> ]
      [] OTHER -> [ url |-> u, code |-> 200, body |-> site.files[f].body ]

\* A client sends GET u and the listener thread answers it: the thread of
\* this process or, once this process has given up the port that was taken,
\* that of the server holding it.
Get(u) ==
    /\ (listener = "serving" /\ exit_status = Running) \/ (port_in_use /\ pc = "exited")
    /\ events < MaxEvents
    /\ events' = events + 1
    /\ resp' = Response(u)
    /\ UNCHANGED << args, src, genv, pc, srvv, exit_status, log >>

\* =========================================================== specification
Next ==
    \/ GeneratorInit
    \/ BuildCmd
    \/ BuildCmdEnd
    \/ CleanCmd
    \/ \E drafts \in BOOLEAN, noimg \in BOOLEAN : LibraryBuild(drafts, noimg)
    \/ LibraryClean
    \/ BuildStep
    \/ \E k \in Kinds : \E s \in StatusOf(k) : Edit(k, s)
    \/ ServeFirstHash
    \/ ServeInitialBuild
    \/ ServeInitialBuildFailed
    \/ ServeBind
    \/ ServeStartThread
    \/ ServeEnterLoop
    \/ Poll
    \/ RebuildEnd
    \/ Sleep
    \/ Interrupt
    \/ ServerShutdown
    \/ ServerClose
    \/ ThreadJoin
    \/ \E u \in Urls : Get(u)

Spec == Init /\ [][Next]_vars

\* The steps the program takes by itself (the interpreter runs a thread that
\* can run); edits, requests, the interrupt and library calls are the
\* environment's.
ProgramStep ==
    \/ GeneratorInit
    \/ BuildCmd
    \/ BuildCmdEnd
    \/ CleanCmd
    \/ BuildStep
    \/ ServeFirstHash
    \/ ServeInitialBuild
    \/ ServeInitialBuildFailed
    \/ ServeBind
    \/ ServeStartThread
    \/ ServeEnterLoop
    \/ Poll
    \/ RebuildEnd
    \/ Sleep
    \/ ServerShutdown
    \/ ServerClose
    \/ ThreadJoin

LiveSpec == Init /\ [][Next]_vars /\ WF_vars(ProgramStep)

\* ============================================================== properties
Uninterrupted == << "signal", "interrupt" >> \notin log

\* The output files every build of the project writes.
AlwaysBuilt == { "page", "post", "css", "js", "asset" }

\* A rebuild started by the poll loop has failed, and serve() has logged the
\* warning and gone on.
RebuildFailedWarned ==
    /\ cmd = "serve" /\ builds > 1 /\ bpc = "raised"
    /\ pc \in { "sleep", "poll" }

\* The output directory holds the complete output of an earlier build.
HoldsPreviousBuild ==
    \E b \in 1 .. (builds - 1) :
        \A f \in AlwaysBuilt : IsFile(f) /\ site.files[f].bid = b

RebuildFailed ==
    /\ cmd = "serve" /\ builds > 1 /\ bpc = "raised"
    /\ pc # "rebuild"
    /\ Uninterrupted

\* C2 (as stated): after every failed rebuild the HTTP listener is still
\* running and the auto-rebuild poll loop is still polling, whatever content
\* error made the rebuild fail.
C2_Original ==
    RebuildFailed => (listener = "serving" /\ pc \in { "sleep", "poll" })

\* The initial build of serve() has failed.
InitialBuildFailed ==
    /\ cmd = "serve" /\ builds = 1 /\ bpc = "raised"
    /\ Uninterrupted

\* C3 (as stated): if the initial build of serve() fails, the listener is never
\* created and no request is answered, and the process ends with a non-zero
\* status after logging that there is nothing to serve.
C3_Original ==
    InitialBuildFailed =>
        /\ listener = "none"
        /\ ~port_in_use => resp = NoResponse
        /\ pc # "initial_build" =>
              /\ exit_status \notin { Running, 0 }
              /\ << "critical", "nothing to serve" >> \in log

\* The sources whose modification times the server tracks.
Tracked(drafts) == IF drafts THEN Kinds ELSE Kinds \ { "draft" }

\* Some tracked source has been modified since the hash was last computed.
Changed == \E k \in Tracked(include_drafts) : src[k].rev # seen[k]

\* C4: a poll starts exactly one build if the modification time of some
\* tracked resource has changed since the previous poll, and no build
\* otherwise (whether the previous build succeeded or failed); and in the
\* auto-rebuild loop nothing but such a poll starts a build.
C4_OneRebuildPerChange ==
    [][ /\ (pc = "poll" /\ pc' \in { "rebuild", "sleep" }) =>
              IF Changed
              THEN pc' = "rebuild" /\ builds' = builds + 1 /\ bpc' = "clean"
              ELSE pc' = "sleep" /\ builds' = builds /\ bpc' = bpc
        /\ (pc \in { "poll", "rebuild", "sleep" } /\ builds' # builds) =>
              (pc = "poll" /\ Changed)
      ]_vars

C4_Witness ==
    /\ pc = "rebuild" /\ bpc = "clean" /\ builds = 2
    /\ Changed = FALSE /\ seen = Revisions /\ \E k \in Kinds : src[k].rev > 0

\* What a request for source f's output returns once the site is built from
\* the sources as they are now.
Expected(f) ==
    IF f \in { "page", "post", "draft" }
    THEN << f, src[f].rev, src["template"].rev, src["data"].rev >>
    ELSE << f, src[f].rev >>

AllValid == \A k \in Kinds : src[k].st = "ok"

UpToDate ==
    /\ \A f \in OutFiles \cap Tracked(include_drafts) :
          IsFile(f) /\ site.files[f].body = Expected(f)
    /\ \A u \in Urls :
          Response(u) = [ url |-> u, code |-> 200, body |-> Expected(UrlFile(u)) ]

ServingAuto ==
    /\ cmd = "serve" /\ auto_rebuild /\ listener = "serving"
    /\ Uninterrupted

\* C5 (as stated): in auto-rebuild mode, once the sources have been modified
\* and are valid, the site is eventually rebuilt and every later GET returns
\* 200 with the content built from the modified sources (unless the sources
\* become invalid again or the server is interrupted first).
C5_Original ==
    (ServingAuto /\ AllValid) ~> (UpToDate \/ ~AllValid \/ ~Uninterrupted)

\* The exceptions a page source can make build() raise.
PageErrors == { "MissingElementError", "YAMLError", "yaml.scanner.ScannerError" }

\* C6 (as stated): after a page source is changed so that the rebuild fails,
\* the server process stays up and keeps answering requests, and GET /
\* returns 404.
C6_Original ==
    (RebuildFailed /\ err \in PageErrors) =>
        /\ listener = "serving"
        /\ exit_status = Running
        /\ Response("/").code = 404

\* C7: every build() starts by deleting the output directory and recreating
\* it empty, before any source is collected; so after a successful build
\* every file of the output directory was written by that build.
C7_FreshOutput ==
    [][ /\ builds' # builds => bpc' = "clean"
        /\ (bpc = "clean" /\ bpc' # "clean") => (site' = EmptySite /\ bpc' = "pages")
        /\ bpc' = "done" =>
              \A f \in OutFiles :
                  (site'.exists /\ site'.files[f] # NoFile) => site'.files[f].bid = builds'
      ]_vars

C7_Witness ==
    /\ bpc = "done" /\ builds = 2
    /\ \A f \in AlwaysBuilt : IsFile(f) /\ site.files[f].bid = 2

\* C8 (as stated): whenever build() ends with an error, the output directory
\* has been deleted before the error is raised or the process exits.
C8_Original ==
    bpc \in { "raised", "exited" } => ~site.exists

\* C9 (as stated): under the build, clean and serve subcommands a fatal error
\* ends the process with the code of its kind, and every failure of the
\* build subcommand is such an exit; in library use a failed build() raises
\* the exception ERROR_CODE_EXCEPTION_MAP gives for the code.
C9_Original ==
    /\ \A c \in FloresErrorCode :
          ( /\ cmd \in { "build", "clean", "serve" }
            /\ << "critical", ERROR_CODE_EXCEPTION_MAP[c] >> \in log
            /\ exit_status # Running
            /\ Uninterrupted ) => exit_status = c
    /\ (cmd = "build" /\ exit_status \notin { Running, 0 }) =>
          << "critical", ERROR_CODE_EXCEPTION_MAP[exit_status] >> \in log
    /\ (cmd = "library" /\ bpc = "raised") =>
          \E c \in FloresErrorCode :
              /\ err = ERROR_CODE_EXCEPTION_MAP[c]
              /\ << "critical", ERROR_CODE_EXCEPTION_MAP[c] >> \in log

\* The interrupt arrived at a server whose listener thread had been started.
InterruptedWhileServing ==
    /\ ~Uninterrupted
    /\ listener \notin { "none", "bound", "dropped" }

\* C10 (as stated): an interrupt delivered to a running server, whatever the
\* server is doing, makes serve() shut the listener down, close its socket
\* and join its thread, in that order, and the process ends with status 0.
C10_Original ==
    InterruptedWhileServing =>
        /\ pc \in { "stop_shutdown", "stop_close", "stop_join", "returned" }
        /\ pc = "stop_close" => listener = "stopped"
        /\ pc = "stop_join" => listener = "closed"
        /\ pc = "returned" => (listener = "closed" /\ joined /\ exit_status = 0)
        /\ exit_status # Running => pc = "returned"

\* C11: when the port is already in use, serve logs a message naming host and
\* port and exits with a non-zero status once the initial build is done; it
\* starts no listener thread and never enters the poll loop, and the server
\* that holds the port answers GET / with 200.
C11_PortConflict ==
    (cmd = "serve" /\ port_in_use /\ bpc = "done" /\ pc # "initial_build" /\ Uninterrupted) =>
        /\ pc = "exited"
        /\ exit_status = 1
        /\ << "critical", "http://localhost:port is already in use" >> \in log
        /\ listener = "none" /\ ~joined
        /\ << "info", "serving" >> \notin log
        /\ builds = 1
        /\ Response("/").code = 200

C11_Witness ==
    /\ port_in_use /\ pc = "exited" /\ bpc = "done"
    /\ << "critical", "http://localhost:port is already in use" >> \in log
    /\ resp.url = "/" /\ resp.code = 200

\* C12: in static mode the site is built exactly once: once the initial build
\* is done no step starts a build or changes the output directory, whatever
\* the author edits, so every URL keeps answering as after the initial build.
C12_StaticBuildsOnce ==
    [][ (cmd = "serve" /\ ~auto_rebuild /\ bpc = "done") =>
            /\ builds = 1 /\ builds' = builds /\ bpc' = bpc
            /\ site' = site
            /\ \A u \in Urls : Response(u)' = Response(u)
      ]_vars

C12_Witness ==
    /\ cmd = "serve" /\ ~auto_rebuild /\ pc = "spin"
    /\ src["page"].rev = 1
    /\ resp = [ url |-> "/", code |-> 200, body |-> << "page", 0, 0, 0 >> ]

\* C13: once the listener exists, the output directory changes only in steps
\* of a rebuild the poll loop started; answering a request changes nothing
\* of it; and a build starts only from a poll, when the previous build has
\* ended (by success or failure).
C13_SingleWriter ==
    [][ (cmd = "serve" /\ listener # "none") =>
            /\ site' # site => (pc = "rebuild" /\ bpc \notin { "done", "raised" })
            /\ builds' # builds => (pc = "poll" /\ bpc \in { "done", "raised" })
            /\ resp' # resp => (site' = site /\ builds' = builds /\ bpc' = bpc)
      ]_vars

C13_Witness ==
    /\ cmd = "serve" /\ pc = "rebuild" /\ bpc = "static" /\ builds = 2
    /\ resp.url = "/" /\ site.files["page"].bid = 2

\* ============================================================ method level
\* The specifications below call one Generator method on a project of its own;
\* the command of the specifications above is not running.

NotRunning ==
    /\ cmd = "library" /\ project_dir_ok = TRUE /\ cli_mode = FALSE
    /\ include_drafts = FALSE /\ disable_image_rebuild = FALSE
    /\ auto_rebuild = FALSE /\ port_in_use = FALSE
    /\ src = AllOk /\ events = 0 /\ site = NoSite /\ builds = 0 /\ bpc = "idle"
    /\ bargs = [ include_drafts |-> FALSE, disable_image_build |-> FALSE ]
    /\ err = NoError /\ pc = "call" /\ resource_hash = << >>
    /\ seen = [ k \in Kinds |-> 0 ] /\ listener = "none" /\ joined = FALSE
    /\ exit_status = Running /\ log = {} /\ resp = NoResponse

\* ------------------------------------------------------------------- pages

MaxPages == 2                               \* page files of the project
PageNames == { "foo", "bar" }
PageSuffixes == { "md", "markdown" }
\* the value of the frontmatter key 'permalink' of a page
Absent == [ type |-> "absent", text |-> "" ]
Permalinks ==
    { Absent, [ type |-> "int", text |-> "5" ] }
        \cup [ type : { "str" },
               text : { "about/foo", "/", "/foo", "/aa/../../../../foo", "/foo/bar" } ]
\* a page file with frontmatter, a 'template' key naming an existing template, and
\* content that renders
PageFiles == [ name : PageNames, suffix : PageSuffixes, permalink : Permalinks ]
SourceFile(f) == << f.name, f.suffix >>
\* os.listdir() of _pages, in the order it returns the files
PageListings ==
    { l \in UNION { [ 1..n -> PageFiles ] : n \in 1..MaxPages } :
        \A i, j \in DOMAIN l : i # j => SourceFile(l[i]) # SourceFile(l[j]) }

\* page_data = dict(frontmatter), then 'name', 'content' and 'source_file' are set:
\* 'permalink' is one more frontmatter key, which nothing reads
CollectPage(f) ==
    [ name |-> f.name, source_file |-> SourceFile(f), permalink |-> f.permalink,
      content |-> SourceFile(f) ]
CollectPages(files) == [ i \in DOMAIN files |-> CollectPage(files[i]) ]

\* The path of an output file is the sequence of its components below _site, without
\* the suffix '.html' of the last one: << "foo", "bar" >> is _site/foo/bar.html.
PagePath(page) == << page.name >>

\* the page loop of build(): open(..., "w") replaces a file written before
RECURSIVE WritePages(_, _)
WritePages(pages, files) ==
    IF pages = << >> THEN files
    ELSE LET page == Head(pages)
             kept == { f \in files : f.path # PagePath(page) }
         IN  WritePages(Tail(pages),
                        kept \cup { [ path |-> PagePath(page), content |-> page.content ] })

BuildPagesOf(files) ==
    [ err |-> NoError, files |-> WritePages(CollectPages(files), {}), warnings |-> {} ]

PagesInit == NotRunning /\ call \in [ fn : { "pages" }, files : PageListings ] /\ ret = Pending

PagesCall ==
    /\ call.fn = "pages" /\ ret = Pending
    /\ ret' = BuildPagesOf(call.files)
    /\ UNCHANGED << runv, call >>

PagesSpec == PagesInit /\ [][PagesCall]_vars

PagesBuilt == call.fn = "pages" /\ ret # Pending

\* C14: a page whose permalink is /foo/bar is written to foo/bar.html and to
\* foo/bar/index.html, and the two files hold the same rendered content.
C14_Original ==
    PagesBuilt =>
        \A i \in DOMAIN call.files :
            (/\ call.files[i].permalink = [ type |-> "str", text |-> "/foo/bar" ]
             /\ \A j \in DOMAIN call.files : j # i => call.files[j].permalink = Absent) =>
                \E c \in { f.content : f \in ret.files } :
                    /\ [ path |-> << "foo", "bar" >>, content |-> c ] \in ret.files
                    /\ [ path |-> << "foo", "bar", "index" >>, content |-> c ] \in ret.files

\* C15: when two pages resolve to the same output path the build succeeds, the path
\* holds the page processed later, and a warning names both source files.
C15_Original ==
    PagesBuilt =>
        \A i, j \in DOMAIN call.files :
            LET p == call.files[i]
                q == call.files[j]
            IN  (/\ i < j
                 /\ p.permalink = q.permalink
                 /\ \/ p.permalink = Absent /\ p.name = q.name
                    \/ p.permalink = [ type |-> "str", text |-> "/foo/bar" ]) =>
                    /\ ret.err = NoError
                    /\ \E f \in ret.files : f.content = SourceFile(q)
                    /\ \A f \in ret.files : f.content # SourceFile(p)
                    /\ \E w \in ret.warnings : w = { SourceFile(p), SourceFile(q) }

\* C16: a permalink that is not a string, is relative, is exactly "/", is the page's
\* own name at the root, or climbs out of the site root makes the build fail with
\* WrongTypeOrFormatError, and nothing is written.
C16_Original ==
    PagesBuilt =>
        \A i \in DOMAIN call.files :
            LET p == call.files[i]
            IN  (\/ p.permalink.type = "int"
                 \/ p.permalink.text \in { "about/foo", "/", "/aa/../../../../foo" }
                 \/ p.permalink.text = "/foo" /\ p.name = "foo") =>
                    /\ ret.err = ERROR_CODE_EXCEPTION_MAP[WRONG_TYPE_OR_FORMAT]
                    /\ ret.files = {}

\* ------------------------------------------------------------------- posts

MaxPosts == 1                               \* files in each of _posts and _drafts
MaxDated == 1                               \* post files of a project with dated posts

\* Text is a sequence of characters. The fields of a file name YYYY-MM-DD-name are
\* text, and so are those of a 'date' string "%Y-%m-%d %H:%M:%S %z"; its hour is kept
\* as a number and its minutes, seconds and offset are 00:00 +0000.
YearTexts == { << "1", "9", "7", "0" >>, << "1", "9", "7", "1" >> }
MonthTexts == { << "0", "1" >>, << "1" >>, << "0", "2" >>, << "1", "3" >> }
DayTexts == { << "0", "1" >>, << "0", "2" >> }
Hours == { 0, 1 }
PostNames == { "draft", "hello" }
\* the frontmatter has no key 'date'
NoDate == [ year |-> << >>, month |-> << >>, day |-> << >>, hour |-> 0 ]
\* the value of the frontmatter key 'is_draft'
KeyValues == { "absent", "true", "false" }

\* a post file with a frontmatter that has 'template', naming an existing template,
\* 'title', and content that renders
PostFile(dir, year, month, day, name, date, is_draft) ==
    [ dir |-> dir, year |-> year, month |-> month, day |-> day, name |-> name,
      date |-> date, is_draft |-> is_draft ]
PostPath(f) == << f.dir, f.year, f.month, f.day, f.name >>

DigitOf(c) == CHOOSE d \in 0..9 : DigitChars[d + 1] = c

\* int() of a field matched by the regular expression of a directive
RECURSIVE IntOf(_)
IntOf(text) ==
    IF text = << >> THEN 0
    ELSE 10 * IntOf(SubSeq(text, 1, Len(text) - 1)) + DigitOf(text[Len(text)])

\* datetime.strptime accepts %Y of four digits, %m of one or two digits in 1..12
\* and %d of one or two digits in 1..31
Parses(date) ==
    /\ Len(date.year) = 4
    /\ Len(date.month) \in 1..2 /\ IntOf(date.month) \in 1..12
    /\ Len(date.day) \in 1..2 /\ IntOf(date.day) \in 1..31
Strptime(date) ==
    [ year |-> IntOf(date.year), month |-> IntOf(date.month), day |-> IntOf(date.day),
      hour |-> date.hour ]

\* strftime("%m"), strftime("%d"): two digits, zero-padded
Padded(n) == IF n < 10 THEN << "0" >> \o Digits(n) ELSE Digits(n)

\* PostDateInfo(...); the timestamp grows with the date and the hour
PostDateInfoOf(date) ==
    [ year |-> Digits(date.year), month_padded |-> Padded(date.month),
      day_padded |-> Padded(date.day),
      timestamp |-> ((date.year * 12 + date.month) * 31 + date.day) * 24 + date.hour ]

PostFailure(message) ==
    [ err |-> ERROR_CODE_EXCEPTION_MAP[WRONG_TYPE_OR_FORMAT], message |-> message ]

\* A collect_posts that keeps the frontmatter key 'is_draft' when there is one.
PostData_KeepsKey(f, draft_files) ==
    IF f.is_draft = "absent" THEN PostPath(f) \in draft_files ELSE f.is_draft = "true"

\* post_data = dict(frontmatter), then the keys of the generator are written over it
PostData(f, draft_files) == PostPath(f) \in draft_files

\* A collect_posts that compares the day before the month.
DateChecks_DayFirst(f, info) ==
    IF f.year # info.year THEN << "Year mismatch", f.year, info.year >>
    ELSE IF f.day # info.day_padded THEN << "Day mismatch", f.day, info.day_padded >>
    ELSE IF f.month # info.month_padded
         THEN << "Month mismatch", f.month, info.month_padded >>
    ELSE << >>

\* the three comparisons of the file name with the date; << >> when all pass
DateChecks(f, info) ==
    IF f.year # info.year THEN << "Year mismatch", f.year, info.year >>
    ELSE IF f.month # info.month_padded
         THEN << "Month mismatch", f.month, info.month_padded >>
    ELSE IF f.day # info.day_padded THEN << "Day mismatch", f.day, info.day_padded >>
    ELSE << >>

\* the body of the loop of collect_posts on one file: a failure or a Post
CollectPost(f, draft_files) ==
    LET date_string == IF f.date # NoDate THEN f.date
                       ELSE [ year |-> f.year, month |-> f.month, day |-> f.day, hour |-> 0 ]
    IN  IF ~Parses(date_string) THEN PostFailure(<< "ValueError" >>)
        ELSE LET info == PostDateInfoOf(Strptime(date_string))
                 mismatch == DateChecks(f, info)
             IN  IF mismatch # << >> THEN PostFailure(mismatch)
                 ELSE [ err |-> NoError,
                        name |-> f.name,
                        base_address |-> << f.year, f.month, f.day >>,
                        is_draft |-> PostData(f, draft_files),
                        date |-> info,
                        categories |-> { PostPath(f) },
                        source_file |-> PostPath(f) ]

\* sorted(posts, key=timestamp, reverse=True): newest first, and posts of the same
\* timestamp in the order they were collected in
RECURSIVE SortedPosts(_)
SortedPosts(posts) ==
    IF posts = << >> THEN << >>
    ELSE LET newest == CHOOSE i \in DOMAIN posts :
                           /\ \A j \in DOMAIN posts :
                                  posts[j].date.timestamp <= posts[i].date.timestamp
                           /\ \A j \in 1..(i - 1) :
                                  posts[j].date.timestamp < posts[i].date.timestamp
             rest == [ k \in 1..(Len(posts) - 1) |->
                          IF k < newest THEN posts[k] ELSE posts[k + 1] ]
         IN  << posts[newest] >> \o SortedPosts(rest)

\* collect_posts(include_drafts): the first failure, or the posts
RECURSIVE CollectLoop(_, _, _)
CollectLoop(files, draft_files, posts) ==
    IF files = << >> THEN [ err |-> NoError, message |-> << >>, posts |-> SortedPosts(posts) ]
    ELSE LET post == CollectPost(Head(files), draft_files)
         IN  IF post.err # NoError
             THEN [ err |-> post.err, message |-> post.message, posts |-> << >> ]
             ELSE CollectLoop(Tail(files), draft_files, Append(posts, post))

CollectPosts(post_files, draft_files, drafts) ==
    CollectLoop(IF drafts THEN post_files \o draft_files ELSE post_files,
                { PostPath(d) : d \in { draft_files[i] : i \in DOMAIN draft_files } },
                << >>)

\* the post loop of build(): <base_address>/<name>.html, opened with "w"
PostFilePath(post) == post.base_address \o << post.name >>
RECURSIVE WritePosts(_, _)
WritePosts(posts, files) ==
    IF posts = << >> THEN files
    ELSE LET post == Head(posts)
             kept == { f \in files : f.path # PostFilePath(post) }
         IN  WritePosts(Tail(posts),
                        kept \cup { [ path |-> PostFilePath(post),
                                      content |-> << post.source_file, post.is_draft >> ] })

\* build(include_drafts) of a project of posts: the posts and the categories of the
\* site context, and the files written
BuildPostsOf(post_files, draft_files, drafts) ==
    LET c == CollectPosts(post_files, draft_files, drafts)
        posts == { c.posts[i] : i \in DOMAIN c.posts }
    IN  [ err |-> c.err, message |-> c.message, posts |-> c.posts,
          categories |-> UNION { post.categories : post \in posts },
          files |-> IF c.err = NoError THEN WritePosts(c.posts, {}) ELSE {} ]

\* do_GET of a URL without '.html': the file that the path with '.html' names, or 404
GetFrom(files, path) ==
    IF \E f \in files : f.path = path
    THEN [ code |-> 200, body |-> (CHOOSE f \in files : f.path = path).content ]
    ELSE [ code |-> 404, body |-> << >> ]

\* os.listdir() of a directory: files of different names, in some order
Listings(fileset, n) ==
    { l \in UNION { [ 1..k -> fileset ] : k \in 0..n } :
        \A i, j \in DOMAIN l : i # j => PostPath(l[i]) # PostPath(l[j]) }

\* a project of one directory of posts with and without a 'date'
DatedFiles ==
    { PostFile("_posts", y, m, d, "hello", date, "absent") :
        y \in YearTexts, m \in MonthTexts, d \in DayTexts,
        date \in { NoDate } \cup [ year : YearTexts, month : MonthTexts, day : DayTexts,
                                   hour : { 0 } ] }
DatedCalls ==
    [ fn : { "posts" }, posts : Listings(DatedFiles, MaxDated) \ { << >> },
      drafts : { << >> }, include_drafts : { FALSE } ]

\* a project of posts and drafts of 1970-01-01, with an hour or without a 'date'
DayFiles(dir) ==
    { PostFile(dir, << "1", "9", "7", "0" >>, << "0", "1" >>, << "0", "1" >>, n, date, k) :
        n \in PostNames, k \in KeyValues,
        date \in { NoDate,
                   [ year |-> << "1", "9", "7", "0" >>, month |-> << "0", "1" >>,
                     day |-> << "0", "1" >>, hour |-> 1 ] } }
DraftCalls ==
    [ fn : { "posts" }, posts : Listings(DayFiles("_posts"), MaxPosts),
      drafts : Listings(DayFiles("_drafts"), MaxPosts), include_drafts : BOOLEAN ]

PostsInit == NotRunning /\ call \in DatedCalls \cup DraftCalls /\ ret = Pending

PostsCall ==
    /\ call.fn = "posts" /\ ret = Pending
    /\ ret' = BuildPostsOf(call.posts, call.drafts, call.include_drafts)
    /\ UNCHANGED << runv, call >>

PostsSpec == PostsInit /\ [][PostsCall]_vars

PostsBuilt == call.fn = "posts" /\ ret # Pending

\* C18: a post whose 'date' has a year, month or day that disagrees with the file
\* name (the month and the day compared in their zero-padded form) makes
\* collect_posts fail with WrongTypeOrFormatError and a mismatch message that names
\* the first field that disagrees, year before month before day; a post whose three
\* fields agree does not fail on its date.
C18_DateMismatch ==
    PostsBuilt =>
        \A i \in DOMAIN call.posts :
            LET f == call.posts[i]
                padded(t) == IF Len(t) = 1 THEN << "0" >> \o t ELSE t
                expected ==
                    IF f.year # f.date.year THEN << "Year mismatch", f.year, f.date.year >>
                    ELSE IF f.month # padded(f.date.month)
                         THEN << "Month mismatch", f.month, padded(f.date.month) >>
                    ELSE IF f.day # padded(f.date.day)
                         THEN << "Day mismatch", f.day, padded(f.date.day) >>
                    ELSE << >>
            IN  (/\ f.date # NoDate /\ Parses(f.date)
                 /\ \A j \in 1..(i - 1) : CollectPost(call.posts[j], {}).err = NoError) =>
                    IF expected # << >>
                    THEN /\ ret.err = ERROR_CODE_EXCEPTION_MAP[WRONG_TYPE_OR_FORMAT]
                         /\ ret.message = expected
                         /\ ret.posts = << >>
                    ELSE \/ \E k \in DOMAIN ret.posts : ret.posts[k].source_file = PostPath(f)
                         \/ \E j \in (i + 1)..Len(call.posts) :
                                CollectPost(call.posts[j], {}).err # NoError

\* a date written with the month 1 agrees with the file name's 01, and the day is
\* then the first field that disagrees
C18_Witness ==
    /\ PostsBuilt
    /\ Len(call.posts) = 1
    /\ call.posts[1].month = << "0", "1" >>
    /\ call.posts[1].date.month = << "1" >>
    /\ call.posts[1].date.year = call.posts[1].year
    /\ ret.message = << "Day mismatch", << "0", "1" >>, << "0", "2" >> >>

\* the drafts of the project, the URL of a post file without its leading slash, and
\* the draft files whose URL is that of no file of _posts
Drafts == { call.drafts[i] : i \in DOMAIN call.drafts }
UrlOf(f) == << f.year, f.month, f.day, f.name >>
Unshadowed == { d \in Drafts : \A i \in DOMAIN call.posts : UrlOf(call.posts[i]) # UrlOf(d) }
CollectedFrom(f) == { ret.posts[k] : k \in { j \in DOMAIN ret.posts : ret.posts[j].source_file = PostPath(f) } }

MaxRendered == 2                            \* pages, posts and user data pages, each

\* list(pygments.styles.get_all_styles()), cut short
PygmentsStyles == << "default", "monokai" >>
\* config.get("pygments_style"): no key, a number, a style, and a name that is none
StyleValues ==
    { Absent, [ type |-> "int", text |-> "5" ], [ type |-> "str", text |-> "monokai" ],
      [ type |-> "str", text |-> "yepthisistotallyapygmentsstylethatexistssure" ] }

\* __get_pygments_style: the failure, or no failure
GetPygmentsStyle(style) ==
    IF style = Absent THEN [ err |-> NoError, message |-> << >> ]
    ELSE IF style.type # "str" THEN PostFailure(<< "Expected type 'str'", style.type >>)
    ELSE IF \A i \in DOMAIN PygmentsStyles : PygmentsStyles[i] # style.text
         THEN PostFailure(<< "is not a valid Pygments style", style.text, PygmentsStyles >>)
    ELSE [ err |-> NoError, message |-> << >> ]

\* build() of a project of valid pages, posts and user data pages: the style is read
\* by __render_markdown, which the three loops call once for each file they render
BuildStyled(style, pages, posts, data_pages) ==
    LET rendered == pages + posts + data_pages
        checked == GetPygmentsStyle(style)
    IN  IF rendered = 0 THEN [ err |-> NoError, message |-> << >>, written |-> 0 ]
        ELSE IF checked.err # NoError
             THEN [ err |-> checked.err, message |-> checked.message, written |-> 0 ]
        ELSE [ err |-> NoError, message |-> << >>, written |-> rendered ]

StyleInit ==
    /\ NotRunning
    /\ call \in [ fn : { "style" }, style : StyleValues, pages : 0..MaxRendered,
                  posts : 0..MaxRendered, data_pages : 0..MaxRendered ]
    /\ ret = Pending

StyleCall ==
    /\ call.fn = "style" /\ ret = Pending
    /\ ret' = BuildStyled(call.style, call.pages, call.posts, call.data_pages)
    /\ UNCHANGED << runv, call >>

StyleSpec == StyleInit /\ [][StyleCall]_vars

\* C19: with a pygments_style that is no style of the highlighter, build() fails with
\* WrongTypeOrFormatError and a message that lists the valid styles, whatever the
\* project holds, a project with nothing to render included.
C19_Original ==
    (/\ call.fn = "style" /\ ret # Pending
     /\ call.style.type = "str"
     /\ \A i \in DOMAIN PygmentsStyles : PygmentsStyles[i] # call.style.text) =>
        /\ ret.err = ERROR_CODE_EXCEPTION_MAP[WRONG_TYPE_OR_FORMAT]
        /\ ret.message = << "is not a valid Pygments style", call.style.text, PygmentsStyles >>

\* --------------------------------------------------------------- resources

\* A path of the project: a directory of the project root, the directories below
\* it, and the name and the suffix of a file; a directory has neither.
Path(dir, sub, name, suffix) == [ dir |-> dir, sub |-> sub, name |-> name, suffix |-> suffix ]
Directory(dir) == Path(dir, << >>, "", "")

\* The source files a project may have. main.html includes includes/head.jinja;
\* _js/vendor/lib.map is used by main.js in the browser.
SourceFiles ==
    { Path("_pages", << >>, "index", "md"),
      Path("_templates", << >>, "main", "html"),
      Path("_templates", << "includes" >>, "head", "jinja"),
      Path("_posts", << >>, "1970-01-01-hello", "md"),
      Path("_drafts", << >>, "1970-01-01-draft", "md"),
      Path("_data", << >>, "config", "json"),
      Path("_css", << >>, "main", "scss"),
      Path("_js", << >>, "main", "js"),
      Path("_js", << "vendor" >>, "lib", "map"),
      Path("_assets", << "txt" >>, "readme", "txt"),
      Path("_mypages", << >>, "my-first-page", "md") }

\* __collect_elements_from_dir(directory, suffixes, files_only=True, recursive)
CollectElementsFromDir(project, directory, suffixes, recursive) ==
    { f \in project : /\ f.dir = directory
                      /\ f.suffix \in suffixes
                      /\ recursive \/ f.sub = << >> }

\* os.path.isdir(directory): the project has no empty directory
IsDir(project, directory) == \E f \in project : f.dir = directory

\* user_data_dirs: the directories '_*' of the project root that are not protected
UserDataDirs(project) ==
    { f.dir : f \in project } \
        { "_templates", "_pages", "_css", "_js", "_posts", "_drafts", "_data", "_assets" }

\* collect_resources(include_drafts), as a set; the drafts directory is appended
\* without a look at the file system
CollectResourcesIn(project, drafts) ==
    LET Markdown == { "md", "markdown" }
        AnySuffix == { f.suffix : f \in project }
        listed == { "_pages", "_templates", "_posts", "_data", "_css", "_js" }
    IN  CollectElementsFromDir(project, "_pages", Markdown, FALSE)
        \cup CollectElementsFromDir(project, "_templates", { "html", "htm" }, FALSE)
        \cup CollectElementsFromDir(project, "_posts", Markdown, FALSE)
        \cup CollectElementsFromDir(project, "_data", { "json" }, FALSE)
        \cup CollectElementsFromDir(project, "_css", { "css", "scss", "sass" }, TRUE)
        \cup CollectElementsFromDir(project, "_js", { "js" }, TRUE)
        \cup { Directory(d) : d \in { x \in listed : IsDir(project, x) } }
        \cup (IF IsDir(project, "_assets")
              THEN CollectElementsFromDir(project, "_assets", AnySuffix, TRUE)
                       \cup { Directory("_assets") }
              ELSE {})
        \cup UNION { CollectElementsFromDir(project, d, Markdown, FALSE) \cup { Directory(d) } :
                       d \in UserDataDirs(project) }
        \cup (IF drafts
              THEN CollectElementsFromDir(project, "_drafts", Markdown, FALSE)
                       \cup { Directory("_drafts") }
              ELSE {})

\* the files build(include_drafts) opens: what the collect_* methods parse, what the
\* Jinja loader reads for a template and for the files it includes, what sass
\* compiles, and what shutil.copytree copies from _js and _assets
BuildReads(project, drafts) ==
    LET Markdown == { "md", "markdown" }
        AnySuffix == { f.suffix : f \in project }
        templates == CollectElementsFromDir(project, "_templates", { "html", "htm" }, FALSE)
    IN  CollectElementsFromDir(project, "_pages", Markdown, FALSE)
        \cup templates
        \cup (IF templates # {}
              THEN { f \in project : f.dir = "_templates" /\ f.sub = << "includes" >> }
              ELSE {})
        \cup CollectElementsFromDir(project, "_posts", Markdown, FALSE)
        \cup (IF drafts THEN CollectElementsFromDir(project, "_drafts", Markdown, FALSE)
              ELSE {})
        \cup CollectElementsFromDir(project, "_data", { "json" }, FALSE)
        \cup CollectElementsFromDir(project, "_css", { "css", "scss", "sass" }, TRUE)
        \cup CollectElementsFromDir(project, "_js", AnySuffix, TRUE)
        \cup CollectElementsFromDir(project, "_assets", AnySuffix, TRUE)
        \cup UNION { CollectElementsFromDir(project, d, Markdown, FALSE) :
                       d \in UserDataDirs(project) }

ResourcesInit ==
    /\ NotRunning
    /\ call \in [ fn : { "resources" }, project : SUBSET SourceFiles,
                  include_drafts : BOOLEAN ]
    /\ ret = Pending

ResourcesCall ==
    /\ call.fn = "resources" /\ ret = Pending
    /\ LET resources == CollectResourcesIn(call.project, call.include_drafts)
           \* os.path.getmtime(resource) in Server.__compute_resource_hash
           missing == { r \in resources :
                          IF r.name = "" THEN ~IsDir(call.project, r.dir)
                          ELSE r \notin call.project }
       IN  ret' = [ err |-> IF missing = {} THEN NoError ELSE "FileNotFoundError",
                    resources |-> resources,
                    reads |-> BuildReads(call.project, call.include_drafts) ]
    /\ UNCHANGED << runv, call >>

ResourcesSpec == ResourcesInit /\ [][ResourcesCall]_vars

\* C20: the files that collect_resources(include_drafts) returns (it returns the
\* directories that hold them as well) are exactly the source files that the build
\* reads, the files that templates include from subdirectories of _templates among
\* them, and the draft files exactly when include_drafts is true.
C20_Original ==
    (call.fn = "resources" /\ ret # Pending) =>
        /\ { r \in ret.resources : r.name # "" } = ret.reads
        /\ \A f \in call.project :
               f.dir = "_drafts" => (f \in ret.resources <=> call.include_drafts)

\* ====================================================== the server, again

\* C23: the stored fingerprint is updated when a rebuild succeeds. After a rebuild of
\* sources that have not changed since the poll that detected them, the stored
\* fingerprint is the current one if the rebuild succeeded, and is still the one from
\* before the change, which differs from the current one, if the rebuild failed.
C23_Original ==
    (/\ cmd = "serve" /\ auto_rebuild /\ builds > 1 /\ pc = "sleep"
     /\ seen = Revisions /\ Uninterrupted) =>
        IF bpc = "done"
        THEN resource_hash = ComputeResourceHash(include_drafts)
        ELSE resource_hash # ComputeResourceHash(include_drafts)

\* C25: with image rebuilding disabled, the image that the initial build of serve()
\* wrote to the output is in the output after every successful rebuild.
C25_Original ==
    (/\ cmd = "serve" /\ auto_rebuild /\ disable_image_rebuild
     /\ builds > 1 /\ bpc = "done") =>
        IsFile("image")

\* C27: a failed rebuild never disables rebuilding. When the sources have been made
\* valid again after a failed rebuild and the poll loop has not yet looked at them,
\* the loop is still polling and the listener is still serving, so that the next
\* poll detects the modification.
C27_Original ==
    (/\ cmd = "serve" /\ auto_rebuild /\ builds > 1 /\ bpc = "raised" /\ pc # "rebuild"
     /\ AllValid /\ Changed /\ Uninterrupted) =>
        /\ pc \in { "poll", "sleep" }
        /\ listener = "serving"

\* ------------------------------------------------------------- the config

MaxRewrites == 3                            \* times config.json is saved during a build

\* One build() of a project of call.records pages and of images, while the author
\* saves _data/config.json. ret.file is the revision of the file; the other fields
\* are the revisions that the build has read: for site.config, for the style of each
\* Markdown conversion, and for the image specs.
ConfigInit ==
    /\ NotRunning
    /\ call \in [ fn : { "config" }, records : 1..MaxRendered ]
    /\ ret = [ pc |-> "context", file |-> 1, site_config |-> 0, styles |-> {},
               images |-> 0, left |-> call.records ]

\* Generator.config is a property that calls __get_config(), which opens and parses
\* the file: every self.config reads the file as it is at that moment.
ConfigStep ==
    /\ call.fn = "config"
    /\ CASE ret.pc = "context" ->
                ret' = [ ret EXCEPT !.site_config = ret.file, !.pc = "render" ]
         [] ret.pc = "render" ->
                ret' = [ ret EXCEPT !.styles = @ \cup { ret.file }, !.left = @ - 1,
                                    !.pc = IF ret.left = 1 THEN "images" ELSE "render" ]
         [] ret.pc = "images" ->
                ret' = [ ret EXCEPT !.images = ret.file, !.pc = "done" ]
         [] OTHER -> FALSE
    /\ UNCHANGED << runv, call >>

\* the author saves config.json
ConfigRewrite ==
    /\ call.fn = "config" /\ ret.pc # "done"
    /\ ret.file <= MaxRewrites
    /\ ret' = [ ret EXCEPT !.file = @ + 1 ]
    /\ UNCHANGED << runv, call >>

ConfigSpec == ConfigInit /\ [][ConfigStep \/ ConfigRewrite]_vars

\* C28: within one build() the configuration is one snapshot: site.config, the style
\* of every Markdown conversion and the image specs come from the same contents of
\* the config file.
C28_Original ==
    (call.fn = "config" /\ ret.pc = "done") =>
        /\ ret.styles = { ret.site_config }
        /\ ret.images = ret.site_config

\* C29: every path that collect_resources(include_drafts) returns exists, whichever
\* conventional directories the project has, and the fingerprint of the resources is
\* computed without an exception.
C29_Original ==
    (call.fn = "resources" /\ ret # Pending) =>
        /\ \A r \in ret.resources :
               IF r.name = "" THEN \E f \in call.project : f.dir = r.dir
               ELSE r \in call.project
        /\ ret.err = NoError

\* ---------------------------------------------------- a poll and a removal

\* One pass of the auto-rebuild loop over a project, while the author removes or
\* renames one tracked file. ret.project is the files of the project now, ret.listed
\* what collect_resources returned, ret.removed says when the file was removed.
PollInit ==
    /\ NotRunning
    /\ call \in [ fn : { "poll" }, project : SUBSET SourceFiles, include_drafts : { FALSE } ]
    /\ ret = [ pc |-> "list", project |-> call.project, listed |-> {}, removed |-> "no" ]

\* __compute_resource_hash: sorted(self.generator.collect_resources(...))
PollList ==
    /\ call.fn = "poll" /\ ret.pc = "list"
    /\ ret' = [ ret EXCEPT !.listed = CollectResourcesIn(ret.project, call.include_drafts),
                           !.pc = "read" ]
    /\ UNCHANGED << runv, call >>

\* os.remove or os.rename of a tracked file; its directory stays
PollRemove ==
    /\ call.fn = "poll" /\ ret.removed = "no" /\ ret.pc \in { "list", "read" }
    /\ \E f \in ret.project \cap CollectResourcesIn(ret.project, call.include_drafts) :
           ret' = [ ret EXCEPT !.project = @ \ { f },
                               !.removed = IF ret.pc = "list" THEN "before" ELSE "between" ]
    /\ UNCHANGED << runv, call >>

\* __compute_resource_hash: str(os.path.getmtime(resource)) for every listed path,
\* which raises FileNotFoundError for a path that is gone; serve() handles
\* KeyboardInterrupt only, so the exception ends the loop. Otherwise the fingerprint
\* is compared: the removal changed the modification time of the file's directory.
PollRead ==
    /\ call.fn = "poll" /\ ret.pc = "read"
    /\ LET gone == { r \in ret.listed : r.name # "" /\ r \notin ret.project }
       IN  ret' = [ ret EXCEPT !.pc = IF gone # {} THEN "crashed"
                                      ELSE IF ret.removed = "before" THEN "rebuild"
                                      ELSE "sleep" ]
    /\ UNCHANGED << runv, call >>

PollSpec == PollInit /\ [][PollList \/ PollRemove \/ PollRead]_vars

\* C30: removing a tracked file, even between the listing of the resources and the
\* reading of their modification times, does not end the poll loop: the pass that
\* meets the removal goes on to a rebuild.
C30_Original ==
    (call.fn = "poll" /\ ret.removed # "no" /\ ret.pc \notin { "list", "read" }) =>
        ret.pc = "rebuild"

\* -------------------------------------------------------- the 404 handler

MaxRequests == 4                            \* requests and writes of _site/404.html

\* The contents _site/404.html may have: no file, two pages, and a page with a
\* per cent sign in it ("width: 100%;").
Contents404 == { "none", "v1", "v2", "percent" }

\* A server and the requests for a path that matches nothing. ret.file is
\* _site/404.html, ret.class_attr the class attribute __custom_404_response, ret.first
\* the content of 404.html at the first lookup that found one, ret.resp the last
\* response.
HandlerInit ==
    /\ NotRunning
    /\ call = [ fn |-> "404" ]
    /\ ret \in [ file : Contents404, class_attr : { "none" }, first : { "unset" },
                 resp : { [ code |-> 0, body |-> "none" ] }, n : { 0 } ]

\* send_error(404) of a handler made for this request. self.__custom_404_response
\* reads the class attribute, which is None; the assignment to it creates an
\* attribute of the instance, which ends with the request. BaseHTTPRequestHandler
\* .send_error then builds the body as error_message_format % {...}: a per cent sign
\* that starts no conversion raises ValueError and the connection is closed without
\* a response.
Get404 ==
    /\ call.fn = "404" /\ ret.n < MaxRequests
    /\ LET instance_attr == IF ret.class_attr = "none" /\ ret.file # "none"
                            THEN ret.file ELSE ret.class_attr
           response ==
               CASE instance_attr = "none" -> [ code |-> 404, body |-> "generic" ]
                 [] instance_attr = "percent" -> [ code |-> 0, body |-> "closed" ]
                 [] OTHER -> [ code |-> 404, body |-> instance_attr ]
       IN  ret' = [ ret EXCEPT !.resp = response, !.n = @ + 1,
                               !.first = IF @ = "unset" /\ ret.file # "none"
                                         THEN ret.file ELSE @ ]
    /\ UNCHANGED << runv, call >>

\* a rebuild writes another 404.html, or clean() removes it
Write404 ==
    /\ call.fn = "404" /\ ret.n < MaxRequests
    /\ \E c \in Contents404 \ { ret.file } : ret' = [ ret EXCEPT !.file = c, !.n = @ + 1 ]
    /\ UNCHANGED << runv, call >>

HandlerSpec == HandlerInit /\ [][Get404 \/ Write404]_vars

\* C21: a request that matches nothing answers 404; once a 404.html has been looked
\* up, its content is the body of that response and, cached, of every later 404
\* response of the server; before that the body is the generic one.
C21_Original ==
    (call.fn = "404" /\ ret.resp.body # "none") =>
        /\ ret.resp.code = 404
        /\ ret.resp.body = IF ret.first = "unset" THEN "generic" ELSE ret.first

\* ------------------------------------------------ a collection on its own

\* The collection methods, the config property, and the failures each can end with;
\* collect_images and collect_resources parse nothing.
MethodErrors ==
    [ collect_pages |-> { MISSING_ELEMENT, WRONG_TYPE_OR_FORMAT, YAML_ERROR },
      collect_posts |-> { MISSING_ELEMENT, WRONG_TYPE_OR_FORMAT, YAML_ERROR },
      collect_templates |-> { TEMPLATE_ERROR },
      collect_data |-> { JSON_ERROR },
      collect_user_data_pages |-> { MISSING_ELEMENT, WRONG_TYPE_OR_FORMAT, YAML_ERROR },
      collect_images |-> {},
      collect_resources |-> {},
      config |-> { JSON_ERROR } ]

\* A caller calls one method of a Generator; _site is absent or holds a build, and
\* shutil.rmtree may fail on it (a file of _site in use or not removable).
CollectInit ==
    /\ NotRunning
    /\ call \in { c \in [ fn : { "collect" }, method : DOMAIN MethodErrors,
                          exit_code : { 0 } \cup FloresErrorCode, cli : BOOLEAN,
                          site : { "none", "built" }, rmtree_fails : BOOLEAN ] :
                    c.exit_code \in { 0 } \cup MethodErrors[c.method] }
    /\ ret = Pending

\* __fail(message, exit_code): log, self.clean(), then sys.exit(exit_code) in CLI
\* mode and the typed exception otherwise. clean() calls shutil.rmtree unguarded: what
\* rmtree raises leaves __fail in place of the error, and the directory is left as far
\* as rmtree got.
FailOutcome(exit_code, cli, build_dir, rmtree_fails, left) ==
    IF build_dir = "built" /\ rmtree_fails
    THEN [ err |-> "PermissionError", exit_status |-> IF cli THEN 1 ELSE Running,
           site |-> left ]
    ELSE [ err |-> IF cli THEN "SystemExit" ELSE ERROR_CODE_EXCEPTION_MAP[exit_code],
           exit_status |-> IF cli THEN exit_code ELSE Running,
           site |-> "none" ]

CollectCall ==
    /\ call.fn = "collect" /\ ret = Pending
    /\ \E left \in { "built", "partial" } :
           ret' = IF call.exit_code = 0
                  THEN [ err |-> NoError, exit_status |-> Running, site |-> call.site ]
                  ELSE FailOutcome(call.exit_code, call.cli, call.site, call.rmtree_fails, left)
    /\ UNCHANGED << runv, call >>

CollectSpec == CollectInit /\ [][CollectCall]_vars

\* C24: when the deletion of the output directory fails while a failure is handled,
\* what is surfaced is still the typed error, or its exit code in CLI mode.
C24_Original ==
    (call.fn = "collect" /\ ret # Pending /\ call.exit_code # 0) =>
        IF call.cli
        THEN ret.exit_status = call.exit_code
        ELSE ret.err = ERROR_CODE_EXCEPTION_MAP[call.exit_code]

\* C26: a collection method called on its own, or a read of the config property,
\* leaves the output directory as it was, whether it succeeds or fails.
C26_Original ==
    (call.fn = "collect" /\ ret # Pending) => ret.site = call.site

\* ------------------------------------------------- the phases of a record

\* The body of the three render loops of build() for one record: the template is
\* looked up, the content is rendered as a template, the result is converted from
\* Markdown (which reads the style), and the template is rendered into the file.
RenderRecord(c) ==
    LET converted == GetPygmentsStyle(c.style)
    IN  IF ~c.template_found
        THEN [ err |-> ERROR_CODE_EXCEPTION_MAP[FILE_OR_DIR_NOT_FOUND],
               message |-> << "source_file", "template", "templates_dir" >> ]
        ELSE IF ~c.directives_ok
        THEN [ err |-> ERROR_CODE_EXCEPTION_MAP[TEMPLATE_ERROR],
               message |-> << "source_file" >> ]
        ELSE IF converted.err # NoError
        THEN converted
        ELSE IF ~c.template_ok
        THEN [ err |-> ERROR_CODE_EXCEPTION_MAP[TEMPLATE_ERROR],
               message |-> << "template_file", "lineno", "source_file" >> ]
        ELSE [ err |-> NoError, message |-> << >> ]

RenderInit ==
    /\ NotRunning
    /\ call \in [ fn : { "render" }, record : { "page", "post", "data_page" },
                  template_found : BOOLEAN, directives_ok : BOOLEAN, style : StyleValues,
                  template_ok : BOOLEAN ]
    /\ ret = Pending

RenderCall ==
    /\ call.fn = "render" /\ ret = Pending
    /\ ret' = RenderRecord(call)
    /\ UNCHANGED << runv, call >>

RenderSpec == RenderInit /\ [][RenderCall]_vars

\* C22: the phases of a record run in the order directive phase, conversion phase,
\* template lookup, template render, and the error surfaced for the record is that
\* of the first phase that fails in this order: a failing directive phase is
\* reported as a TemplateError naming the source file even when the template of the
\* record does not exist.
C22_Original ==
    (call.fn = "render" /\ ret # Pending) =>
        IF ~call.directives_ok
        THEN /\ ret.err = ERROR_CODE_EXCEPTION_MAP[TEMPLATE_ERROR]
             /\ ret.message = << "source_file" >>
        ELSE IF call.style.type = "int" \/ call.style.text \notin { "", "monokai" }
        THEN ret.err = ERROR_CODE_EXCEPTION_MAP[WRONG_TYPE_OR_FORMAT]
        ELSE IF ~call.template_found
        THEN ret.err = ERROR_CODE_EXCEPTION_MAP[FILE_OR_DIR_NOT_FOUND]
        ELSE IF ~call.template_ok
        THEN /\ ret.err = ERROR_CODE_EXCEPTION_MAP[TEMPLATE_ERROR]
             /\ ret.message = << "template_file", "lineno", "source_file" >>
        ELSE ret.err = NoError
====
